---- MODULE Spec2Model ----
(***************************************************************************)
(* A model of src/task_scheduler.py: the TaskScheduler object (task        *)
(* registry, cached execution order, runtime estimate) and the polling     *)
(* controller of run_tasks with its worker threads.                        *)
(*                                                                         *)
(* self.tasks is a Python dict: it iterates in insertion order and an      *)
(* assignment to an existing key keeps the key's position.  It is modelled *)
(* as a sequence of task records, one per key, in insertion order.         *)
(*                                                                         *)
(* A behaviour is any sequence of add_task, validate_tasks and             *)
(* calculate_expected_runtime calls followed by at most one run_tasks      *)
(* call, as main() makes them.  run_tasks reads nothing an earlier         *)
(* run_tasks wrote: it rebinds active_tasks and completed_tasks and writes *)
(* every observation field before reading it.                              *)
(*                                                                         *)
(* Inside run_tasks the controller is the only writer of the scheduler's   *)
(* state; a worker's only effect is that its thread stops being alive.     *)
(* Each pass of the controller over active_tasks, and each pass over       *)
(* execution_order, is therefore one step, and worker ends and clock ticks *)
(* interleave between the passes.                                          *)
(***************************************************************************)
EXTENDS Integers, Sequences, FiniteSets, TLC

\* ------------------------------------------------------------------ bounds
TaskNames == {"A", "B"}      \* the names a caller may register or refer to
MaxDur == 1                  \* durations are 0..MaxDur
MaxDeps == 2                 \* a dependency list has at most MaxDeps entries
MaxLag == 1                  \* clock ticks of a run that no worker is waiting for

Durations == 0 .. MaxDur
DepLists == UNION {[1 .. n -> TaskNames] : n \in 0 .. MaxDeps}

\* Dependency lists that may also name "Z", which is never registered
DepNames == TaskNames \cup {"Z"}
WideDepLists == UNION {[1 .. n -> DepNames] : n \in 0 .. MaxDeps}

\* A third name, for collections in which a task has two dependents or two
\* different dependencies, with dependency lists that name each task at most
\* once, or one task twice
Names3 == TaskNames \cup {"C"}
SetDepLists == {SelectSeq(<<"A", "B", "C">>, LAMBDA n : n \in S) : S \in SUBSET Names3}
RepeatDepLists == {<<n, n>> : n \in Names3}
PlainDepLists == {deps \in SetDepLists : \A j \in 1 .. Len(deps) : deps[j] \in TaskNames}

\* Python's None in the fields start_time, end_time, actual_duration
None == -1

VARIABLES
    tasks,              \* self.tasks
    execution_order,    \* self.execution_order
    expected_runtime,   \* self.expected_runtime
    actual_runtime,     \* self.actual_runtime
    start_time,         \* self.start_time (set by run_tasks)
    end_time,           \* self.end_time (set by run_tasks)
    active_tasks,       \* run_tasks' local dict: name -> (thread, start_time)
    completed_tasks,    \* run_tasks' local set
    pc,                 \* "idle": between calls; "loop", "dispatch": inside
                        \* run_tasks; "done": run_tasks returned or raised
    now,                \* time.time()
    lag,                \* ticks of this run that no worker was waiting for
    ret                 \* what the last call returned or raised

vars == <<tasks, execution_order, expected_runtime, actual_runtime, start_time,
          end_time, active_tasks, completed_tasks, pc, now, lag, ret>>

\* ------------------------------------------------------------ the registry
Task(name, duration, dependencies) ==
    [name |-> name, duration |-> duration, dependencies |-> dependencies,
     start_time |-> None, end_time |-> None, actual_duration |-> None]

\* list(self.tasks): the keys in iteration order
Keys(ts) == [i \in 1 .. Len(ts) |-> ts[i].name]

\* `name in self.tasks`
Registered(ts) == {ts[i].name : i \in 1 .. Len(ts)}

\* self.tasks[name]
Lookup(ts, name) == ts[CHOOSE i \in 1 .. Len(ts) : ts[i].name = name]

\* A registry that keeps the first record of a name (setdefault)
DictSetFirstWins(ts, task) ==
    IF task.name \in Registered(ts) THEN ts ELSE Append(ts, task)

\* self.tasks[task.name] = task
DictSet(ts, task) ==
    IF task.name \in Registered(ts)
    THEN [i \in 1 .. Len(ts) |-> IF ts[i].name = task.name THEN task ELSE ts[i]]
    ELSE Append(ts, task)

\* ------------------------------------------------------- validate_tasks, 1
\* The entry appended for task t's dependency dep; the f-string names both.
MissingError(task_name, dep) == <<"missing", task_name, dep>>

\* A validation that stops at a task's first missing dependency
MissingOfTaskFirstOnly(ts, t) ==
    LET miss == SelectSeq(t.dependencies, LAMBDA dep : dep \notin Registered(ts))
    IN  [j \in 1 .. (IF miss = <<>> THEN 0 ELSE 1) |-> MissingError(t.name, miss[j])]

\* The inner loop of validate_tasks for one task: one entry per listed
\* dependency that is not a key, in list order.
MissingOfTask(ts, t) ==
    LET miss == SelectSeq(t.dependencies, LAMBDA dep : dep \notin Registered(ts))
    IN  [j \in 1 .. Len(miss) |-> MissingError(t.name, miss[j])]

RECURSIVE MissingFrom(_, _)
MissingFrom(ts, i) ==
    IF i > Len(ts) THEN <<>>
    ELSE MissingOfTask(ts, ts[i]) \o MissingFrom(ts, i + 1)

\* The outer loop: the errors list before the `if errors` test.
MissingErrors(ts) == MissingFrom(ts, 1)

\* -------------------------------------------------------- _topological_sort
\* in_degree after the construction loop: one increment per listed dependency
InDegree(ts) == [name \in Registered(ts) |-> Len(Lookup(ts, name).dependencies)]

RECURSIVE Repeat(_, _)
Repeat(x, n) == IF n = 0 THEN <<>> ELSE <<x>> \o Repeat(x, n - 1)

Occurrences(seq, x) == Len(SelectSeq(seq, LAMBDA y : y = x))

\* graph[dep] after the construction loop: the dependents of dep, one per
\* listing, in iteration order of self.tasks (a defaultdict: [] if absent)
RECURSIVE GraphFrom(_, _, _)
GraphFrom(ts, dep, i) ==
    IF i > Len(ts) THEN <<>>
    ELSE Repeat(ts[i].name, Occurrences(ts[i].dependencies, dep))
            \o GraphFrom(ts, dep, i + 1)

\* An adjacency list that holds each dependent once however often it lists dep
GraphOncePerDependent(ts, dep) ==
    SelectSeq(Keys(ts), LAMBDA name : Occurrences(Lookup(ts, name).dependencies, dep) > 0)

Graph(ts, dep) == GraphFrom(ts, dep, 1)

\* deque([name for name, degree in in_degree.items() if degree == 0])
InitialQueue(ts) == SelectSeq(Keys(ts), LAMBDA name : InDegree(ts)[name] = 0)

\* `for neighbor in graph[current]`: decrement, enqueue on reaching zero
RECURSIVE Relax(_, _, _)
Relax(neighbors, in_degree, queue) ==
    IF neighbors = <<>> THEN [in_degree |-> in_degree, queue |-> queue]
    ELSE LET neighbor == Head(neighbors)
             deg == [in_degree EXCEPT ![neighbor] = @ - 1]
         IN  Relax(Tail(neighbors), deg,
                   IF deg[neighbor] = 0 THEN Append(queue, neighbor) ELSE queue)

\* A loop that takes the newest entry of the queue (pop instead of popleft)
RECURSIVE KahnLoopLifo(_, _, _, _)
KahnLoopLifo(ts, queue, result, in_degree) ==
    IF queue = <<>> THEN result
    ELSE LET current == queue[Len(queue)]
             r == Relax(Graph(ts, current), in_degree, SubSeq(queue, 1, Len(queue) - 1))
         IN  KahnLoopLifo(ts, r.queue, Append(result, current), r.in_degree)

\* `while queue`: popleft, append to result, relax the neighbours
RECURSIVE KahnLoop(_, _, _, _)
KahnLoop(ts, queue, result, in_degree) ==
    IF queue = <<>> THEN result
    ELSE LET current == Head(queue)
             r == Relax(Graph(ts, current), in_degree, Tail(queue))
         IN  KahnLoop(ts, r.queue, Append(result, current), r.in_degree)

\* A sort without the length test of line 63
TopologicalSortUnchecked(ts) ==
    [raised |-> FALSE, result |-> KahnLoop(ts, InitialQueue(ts), <<>>, InDegree(ts))]

\* The whole method: raises ValueError when the result is short, otherwise
\* the caller assigns result to execution_order.
TopologicalSort(ts) ==
    LET result == KahnLoop(ts, InitialQueue(ts), <<>>, InDegree(ts))
    IN  IF Len(result) # Len(ts)
        THEN [raised |-> TRUE, result |-> <<>>]
        ELSE [raised |-> FALSE, result |-> result]

\* ----------------------------------------------- calculate_expected_runtime
MaxOf(S) == CHOOSE x \in S : \A y \in S : y <= x

\* The first loop: start_times, filled in the order given.  start_times[dep]
\* raises KeyError when dep has no entry yet.
RECURSIVE StartTimesFrom(_, _, _, _)
StartTimesFrom(ts, order, i, start_times) ==
    IF i > Len(order) THEN [raised |-> FALSE, start_times |-> start_times]
    ELSE LET task == Lookup(ts, order[i])
             deps == {task.dependencies[j] : j \in 1 .. Len(task.dependencies)}
         IN  IF task.dependencies = <<>>
             THEN StartTimesFrom(ts, order, i + 1,
                                 [n \in DOMAIN start_times \cup {task.name} |->
                                     IF n = task.name THEN 0 ELSE start_times[n]])
             ELSE IF \E dep \in deps : dep \notin DOMAIN start_times
             THEN [raised |-> TRUE, start_times |-> start_times]
             ELSE StartTimesFrom(ts, order, i + 1,
                                 [n \in DOMAIN start_times \cup {task.name} |->
                                     IF n = task.name
                                     THEN MaxOf({start_times[dep] + Lookup(ts, dep).duration
                                                   : dep \in deps})
                                     ELSE start_times[n]])

\* A second loop that keeps the end of the task it visits last
TotalRuntimeOfLast(ts, order, start_times) ==
    IF order = <<>> THEN 0
    ELSE start_times[order[Len(order)]] + Lookup(ts, order[Len(order)]).duration

\* A second loop that subtracts the duration from the start
TotalRuntimeSignSlip(ts, order, start_times) ==
    MaxOf({0} \cup {start_times[order[i]] - Lookup(ts, order[i]).duration
                      : i \in 1 .. Len(order)})

\* The second loop: the largest start_times[name] + duration, at least 0
TotalRuntime(ts, order, start_times) ==
    MaxOf({0} \cup {start_times[order[i]] + Lookup(ts, order[i]).duration
                      : i \in 1 .. Len(order)})

\* The method from line 73 on, for the order in self.execution_order
EstimateOver(ts, order) ==
    LET st == StartTimesFrom(ts, order, 1, <<>>)
    IN  IF st.raised THEN [raised |-> TRUE, value |-> None]
        ELSE [raised |-> FALSE, value |-> TotalRuntime(ts, order, st.start_times)]

\* `if not self.execution_order: self._topological_sort()`, shared by
\* calculate_expected_runtime and run_tasks
EnsureOrder(ts, order) ==
    IF order # <<>> THEN [raised |-> FALSE, order |-> order, sorted |-> "no"]
    ELSE LET s == TopologicalSort(ts)
         IN  IF s.raised THEN [raised |-> TRUE, order |-> order, sorted |-> "raised"]
             ELSE [raised |-> FALSE, order |-> s.result, sorted |-> "ok"]

\* ------------------------------------------------------------ return values
Ret(op, raised, valid, errors, value, sorted) ==
    [op |-> op, raised |-> raised, valid |-> valid, errors |-> errors,
     value |-> value, sorted |-> sorted]

CycleError == <<"cycle">>

\* ---------------------------------------------------------------- the state
Init ==
    /\ tasks = <<>>
    /\ execution_order = <<>>
    /\ expected_runtime = 0
    /\ actual_runtime = 0
    /\ start_time = None
    /\ end_time = None
    /\ active_tasks = <<>>
    /\ completed_tasks = {}
    /\ pc = "idle"
    /\ now = 0
    /\ lag = 0
    /\ ret = Ret("none", "none", FALSE, <<>>, None, "no")

run_locals == <<start_time, end_time, active_tasks, completed_tasks, now, lag>>

add_task(name, duration, dependencies) ==
    /\ pc = "idle"
    /\ tasks' = DictSet(tasks, Task(name, duration, dependencies))
    /\ ret' = Ret("add_task", "none", FALSE, <<>>, None, "no")
    /\ UNCHANGED <<execution_order, expected_runtime, actual_runtime, pc, run_locals>>

\* A validate_tasks that sorts only when no order is cached, as
\* calculate_expected_runtime and run_tasks do
validate_tasks_cached ==
    /\ pc = "idle"
    /\ LET errors == MissingErrors(tasks)
           o == EnsureOrder(tasks, execution_order)
       IN  IF errors # <<>>
           THEN /\ ret' = Ret("validate_tasks", "none", FALSE, errors, None, "no")
                /\ UNCHANGED execution_order
           ELSE IF o.raised
           THEN /\ ret' = Ret("validate_tasks", "none", FALSE,
                              Append(errors, CycleError), None, "raised")
                /\ UNCHANGED execution_order
           ELSE /\ ret' = Ret("validate_tasks", "none", TRUE, <<>>, None, o.sorted)
                /\ execution_order' = o.order
    /\ UNCHANGED <<tasks, expected_runtime, actual_runtime, pc, run_locals>>

\* A validate_tasks without the early return of lines 31-32
validate_tasks_no_early_return ==
    /\ pc = "idle"
    /\ LET errors == MissingErrors(tasks)
           s == TopologicalSort(tasks)
       IN  IF s.raised
           THEN /\ ret' = Ret("validate_tasks", "none", FALSE,
                              Append(errors, CycleError), None, "raised")
                /\ UNCHANGED execution_order
           ELSE /\ ret' = Ret("validate_tasks", "none", errors = <<>>, errors, None, "ok")
                /\ execution_order' = s.result
    /\ UNCHANGED <<tasks, expected_runtime, actual_runtime, pc, run_locals>>

validate_tasks ==
    /\ pc = "idle"
    /\ LET errors == MissingErrors(tasks)
           s == TopologicalSort(tasks)
       IN  IF errors # <<>>
           THEN /\ ret' = Ret("validate_tasks", "none", FALSE, errors, None, "no")
                /\ UNCHANGED execution_order
           ELSE IF s.raised
           THEN /\ ret' = Ret("validate_tasks", "none", FALSE,
                              Append(errors, CycleError), None, "raised")
                /\ UNCHANGED execution_order
           ELSE /\ ret' = Ret("validate_tasks", "none", TRUE, <<>>, None, "ok")
                /\ execution_order' = s.result
    /\ UNCHANGED <<tasks, expected_runtime, actual_runtime, pc, run_locals>>

calculate_expected_runtime ==
    /\ pc = "idle"
    /\ LET o == EnsureOrder(tasks, execution_order)
           e == EstimateOver(tasks, o.order)
       IN  IF o.raised
           THEN /\ ret' = Ret("calculate_expected_runtime", "ValueError", FALSE,
                              <<>>, None, o.sorted)
                /\ UNCHANGED <<execution_order, expected_runtime>>
           ELSE IF e.raised
           THEN /\ ret' = Ret("calculate_expected_runtime", "KeyError", FALSE,
                              <<>>, None, o.sorted)
                /\ execution_order' = o.order
                /\ UNCHANGED expected_runtime
           ELSE /\ ret' = Ret("calculate_expected_runtime", "none", FALSE,
                              <<>>, e.value, o.sorted)
                /\ execution_order' = o.order
                /\ expected_runtime' = e.value
    /\ UNCHANGED <<tasks, actual_runtime, pc, run_locals>>

\* ------------------------------------------------------------------ run_tasks
\* _start_task for every name of `names`, all at the time `now`: writes
\* task.start_time and enters (thread, task.start_time) in active_tasks.
\* The thread is alive when started.
StartedTasks(ts, names, t) ==
    [i \in 1 .. Len(ts) |->
        IF ts[i].name \in names THEN [ts[i] EXCEPT !.start_time = t] ELSE ts[i]]

StartedActive(active, names, t) ==
    [n \in DOMAIN active \cup names |->
        IF n \in names THEN [alive |-> TRUE, start_time |-> t] ELSE active[n]]

\* `all(dep in completed_tasks for dep in task.dependencies)`
DepsCompleted(task, completed) ==
    \A j \in 1 .. Len(task.dependencies) : task.dependencies[j] \in completed

\* An initial dispatch that starts every task of the order
InitialReadyAll(ts, order) == {order[i] : i \in 1 .. Len(order)}

\* The names the loop at lines 101-104 starts: those of the order without
\* dependencies.
InitialReady(ts, order) ==
    {order[i] : i \in {j \in 1 .. Len(order) : Lookup(ts, order[j]).dependencies = <<>>}}

\* A readiness test that accepts a dependency that is merely running
ReadyWhenDepsStarted(ts, order, active, completed) ==
    {order[i] : i \in {j \in 1 .. Len(order) :
        /\ order[j] \notin DOMAIN active
        /\ order[j] \notin completed
        /\ DepsCompleted(Lookup(ts, order[j]), completed \cup DOMAIN active)}}

\* A readiness test without the `not in completed_tasks` condition
ReadyIgnoringCompleted(ts, order, active, completed) ==
    {order[i] : i \in {j \in 1 .. Len(order) :
        /\ order[j] \notin DOMAIN active
        /\ DepsCompleted(Lookup(ts, order[j]), completed)}}

\* The names the loop at lines 119-124 starts
Ready(ts, order, active, completed) ==
    {order[i] : i \in {j \in 1 .. Len(order) :
        /\ order[j] \notin DOMAIN active
        /\ order[j] \notin completed
        /\ DepsCompleted(Lookup(ts, order[j]), completed)}}

\* run_tasks up to the while loop (lines 94-104)
run_tasks_begin ==
    /\ pc = "idle"
    /\ lag' = 0
    /\ LET o == EnsureOrder(tasks, execution_order)
       IN  IF o.raised
           THEN /\ ret' = Ret("run_tasks", "ValueError", FALSE, <<>>, None, o.sorted)
                /\ pc' = "done"
                /\ UNCHANGED <<tasks, execution_order, start_time, active_tasks,
                               completed_tasks>>
           ELSE /\ ret' = Ret("run_tasks", "none", FALSE, <<>>, None, o.sorted)
                /\ execution_order' = o.order
                /\ start_time' = now
                /\ completed_tasks' = {}
                /\ tasks' = StartedTasks(tasks, InitialReady(tasks, o.order), now)
                /\ active_tasks' = StartedActive(<<>>, InitialReady(tasks, o.order), now)
                /\ pc' = "loop"
    /\ UNCHANGED <<expected_runtime, actual_runtime, end_time, now>>

\* A worker that returns without sleeping
task_worker_no_sleep(name) ==
    /\ pc \in {"loop", "dispatch"}
    /\ name \in DOMAIN active_tasks
    /\ active_tasks[name].alive
    /\ active_tasks' = [active_tasks EXCEPT ![name].alive = FALSE]
    /\ UNCHANGED <<tasks, execution_order, expected_runtime, actual_runtime,
                   start_time, end_time, completed_tasks, pc, now, lag, ret>>

\* A worker that records the end of its task itself
task_worker_writes_end_time(name) ==
    /\ pc \in {"loop", "dispatch"}
    /\ name \in DOMAIN active_tasks
    /\ active_tasks[name].alive
    /\ now >= active_tasks[name].start_time + Lookup(tasks, name).duration
    /\ active_tasks' = [active_tasks EXCEPT ![name].alive = FALSE]
    /\ tasks' = [i \in 1 .. Len(tasks) |->
                   IF tasks[i].name = name THEN [tasks[i] EXCEPT !.end_time = now]
                   ELSE tasks[i]]
    /\ UNCHANGED <<execution_order, expected_runtime, actual_runtime,
                   start_time, end_time, completed_tasks, pc, now, lag, ret>>

\* task_worker of `name` returns: its thread stops being alive, no earlier
\* than task.duration after it was started
task_worker(name) ==
    /\ pc \in {"loop", "dispatch"}
    /\ name \in DOMAIN active_tasks
    /\ active_tasks[name].alive
    /\ now >= active_tasks[name].start_time + Lookup(tasks, name).duration
    /\ active_tasks' = [active_tasks EXCEPT ![name].alive = FALSE]
    /\ UNCHANGED <<tasks, execution_order, expected_runtime, actual_runtime,
                   start_time, end_time, completed_tasks, pc, now, lag, ret>>

\* Some worker is still asleep at `now`
Sleeping ==
    \E n \in DOMAIN active_tasks :
        /\ active_tasks[n].alive
        /\ now < active_tasks[n].start_time + Lookup(tasks, n).duration

\* The clock advances.  Only differences of readings taken inside run_tasks
\* are ever stored or returned, so the clock is followed while run_tasks
\* executes: as long as a worker is asleep, and for MaxLag further ticks.
Tick ==
    /\ pc \in {"loop", "dispatch"}
    /\ Sleeping \/ lag < MaxLag
    /\ now' = now + 1
    /\ lag' = IF Sleeping THEN lag ELSE lag + 1
    /\ UNCHANGED <<tasks, execution_order, expected_runtime, actual_runtime,
                   start_time, end_time, active_tasks, completed_tasks, pc, ret>>

\* A pass over active_tasks that leaves the finished tasks in active_tasks
run_tasks_poll_keeps_active ==
    /\ pc = "loop"
    /\ Cardinality(completed_tasks) < Len(tasks)
    /\ LET completed == {n \in DOMAIN active_tasks : ~active_tasks[n].alive}
       IN  /\ tasks' = [i \in 1 .. Len(tasks) |->
                          IF tasks[i].name \in completed
                          THEN [tasks[i] EXCEPT
                                  !.end_time = now,
                                  !.actual_duration =
                                      now - active_tasks[tasks[i].name].start_time]
                          ELSE tasks[i]]
           /\ completed_tasks' = completed_tasks \cup completed
    /\ pc' = "dispatch"
    /\ UNCHANGED <<execution_order, expected_runtime, actual_runtime, start_time,
                   end_time, active_tasks, now, lag, ret>>

\* One pass of lines 107-117: every active task whose thread is not alive
\* gets end_time and actual_duration, joins completed_tasks and leaves
\* active_tasks.
run_tasks_poll ==
    /\ pc = "loop"
    /\ Cardinality(completed_tasks) < Len(tasks)
    /\ LET completed == {n \in DOMAIN active_tasks : ~active_tasks[n].alive}
       IN  /\ tasks' = [i \in 1 .. Len(tasks) |->
                          IF tasks[i].name \in completed
                          THEN [tasks[i] EXCEPT
                                  !.end_time = now,
                                  !.actual_duration =
                                      now - active_tasks[tasks[i].name].start_time]
                          ELSE tasks[i]]
           /\ completed_tasks' = completed_tasks \cup completed
           /\ active_tasks' = [n \in DOMAIN active_tasks \ completed |-> active_tasks[n]]
    /\ pc' = "dispatch"
    /\ UNCHANGED <<execution_order, expected_runtime, actual_runtime, start_time,
                   end_time, now, lag, ret>>

\* One pass of lines 119-126
run_tasks_dispatch ==
    /\ pc = "dispatch"
    /\ LET ready == Ready(tasks, execution_order, active_tasks, completed_tasks)
       IN  /\ tasks' = StartedTasks(tasks, ready, now)
           /\ active_tasks' = StartedActive(active_tasks, ready, now)
    /\ pc' = "loop"
    /\ UNCHANGED <<execution_order, expected_runtime, actual_runtime, start_time,
                   end_time, completed_tasks, now, lag, ret>>

\* The while condition is false: lines 128-130
run_tasks_return ==
    /\ pc = "loop"
    /\ ~(Cardinality(completed_tasks) < Len(tasks))
    /\ end_time' = now
    /\ actual_runtime' = now - start_time
    /\ ret' = Ret("run_tasks", "none", FALSE, <<>>, now - start_time, ret.sorted)
    /\ pc' = "done"
    /\ UNCHANGED <<tasks, execution_order, expected_runtime, start_time,
                   active_tasks, completed_tasks, now, lag>>

Next ==
    \/ \E name \in TaskNames, duration \in Durations, dependencies \in DepLists :
          add_task(name, duration, dependencies)
    \/ validate_tasks
    \/ calculate_expected_runtime
    \/ run_tasks_begin
    \/ \E name \in TaskNames : task_worker(name)
    \/ Tick
    \/ run_tasks_poll
    \/ run_tasks_dispatch
    \/ run_tasks_return

Spec == Init /\ [][Next]_vars

\* The same scheduler when the caller never asks for the estimate.
\* calculate_expected_runtime writes expected_runtime, which no other method
\* reads, and execution_order, with the value validate_tasks would write.
NextExec ==
    \/ \E name \in TaskNames, duration \in Durations, dependencies \in DepLists :
          add_task(name, duration, dependencies)
    \/ validate_tasks
    \/ run_tasks_begin
    \/ \E name \in TaskNames : task_worker(name)
    \/ Tick
    \/ run_tasks_poll
    \/ run_tasks_dispatch
    \/ run_tasks_return

SpecExec == Init /\ [][NextExec]_vars

\* The controller keeps polling (the loop sleeps 0.01 s and goes on), every
\* started worker's sleep ends, and the clock does not stop.
Fairness ==
    /\ WF_vars(run_tasks_poll)
    /\ WF_vars(run_tasks_dispatch)
    /\ WF_vars(run_tasks_return)
    /\ WF_vars(Tick)
    /\ \A name \in TaskNames : WF_vars(task_worker(name))

FairSpecExec == SpecExec /\ Fairness

\* The registry and its validation alone.  validate_tasks and
\* _topological_sort read names and dependency lists only, never a duration
\* or an observation field, so one duration is registered here and the
\* dependency lists range over a name that is never registered as well.
NextValidate ==
    \/ \E name \in TaskNames, dependencies \in WideDepLists :
          add_task(name, MaxDur, dependencies)
    \/ validate_tasks

SpecValidate == Init /\ [][NextValidate]_vars

\* A fresh scheduler asked for its estimate: the tasks are registered, then
\* calculate_expected_runtime is called, which sorts because no order is
\* cached yet.
NextFresh ==
    \/ /\ ret.op \in {"none", "add_task"}
       /\ \E name \in Names3, duration \in Durations, dependencies \in SetDepLists :
             add_task(name, duration, dependencies)
    \/ calculate_expected_runtime

SpecFresh == Init /\ [][NextFresh]_vars

\* Every method, over dependency lists that name each of the two tasks at
\* most once.  How often a dependency is listed matters to the sort alone.
NextPlain ==
    \/ \E name \in TaskNames, duration \in Durations, dependencies \in PlainDepLists :
          add_task(name, duration, dependencies)
    \/ validate_tasks
    \/ calculate_expected_runtime
    \/ run_tasks_begin
    \/ \E name \in TaskNames : task_worker(name)
    \/ Tick
    \/ run_tasks_poll
    \/ run_tasks_dispatch
    \/ run_tasks_return

SpecPlain == Init /\ [][NextPlain]_vars

\* A fresh scheduler that validates: up to three tasks are registered, then
\* validate_tasks is called.  The sort reads no duration, so one duration
\* is registered.
NextSort ==
    \/ /\ ret.op \in {"none", "add_task"}
       /\ \E name \in Names3, dependencies \in SetDepLists \cup RepeatDepLists :
             add_task(name, MaxDur, dependencies)
    \/ validate_tasks

SpecSort == Init /\ [][NextSort]_vars

\* ============================================================== properties
\* The vocabulary of the properties, defined without the scheduler's
\* algorithms.
DepSet(t) == {t.dependencies[j] : j \in 1 .. Len(t.dependencies)}

\* Every declared dependency name is registered
AllResolved(ts) == \A i \in 1 .. Len(ts) : DepSet(ts[i]) \subseteq Registered(ts)

\* The names reachable from S along at most k dependency edges
RECURSIVE ReachableIn(_, _, _)
ReachableIn(ts, S, k) ==
    IF k = 0 THEN S
    ELSE ReachableIn(ts,
             S \cup UNION {DepSet(Lookup(ts, n)) : n \in S \cap Registered(ts)}, k - 1)

\* Some task depends on itself, directly or through other tasks
HasCycle(ts) ==
    \E n \in Registered(ts) : n \in ReachableIn(ts, DepSet(Lookup(ts, n)), Len(ts))

ValidCollection(ts) == AllResolved(ts) /\ ~HasCycle(ts)

\* order holds every registered name exactly once, each after its dependencies
IsTopologicalOrder(ts, order) ==
    /\ Len(order) = Len(ts)
    /\ \A n \in Registered(ts) : Cardinality({i \in 1 .. Len(order) : order[i] = n}) = 1
    /\ \A i \in 1 .. Len(order) :
          /\ order[i] \in Registered(ts)
          /\ \A d \in DepSet(Lookup(ts, order[i])) : \E j \in 1 .. (i - 1) : order[j] = d

CountOf(seq, x) == Cardinality({k \in 1 .. Len(seq) : seq[k] = x})

\* C1: for an acyclic collection whose dependency names are all registered,
\* _topological_sort returns, and stores in execution_order, a sequence that
\* holds every registered name exactly once with every dependency of a task
\* before the task, also when a task lists a dependency more than once.
C1_SortIsTopologicalOrder ==
    /\ ValidCollection(tasks) =>
          /\ ~TopologicalSort(tasks).raised
          /\ IsTopologicalOrder(tasks, TopologicalSort(tasks).result)
    /\ ret.sorted = "ok" =>
          /\ execution_order = TopologicalSort(tasks).result
          /\ IsTopologicalOrder(tasks, execution_order)

\* validate_tasks has sorted a collection of two tasks, one of which lists
\* the other twice
C1_Witness ==
    /\ ret.op = "validate_tasks"
    /\ ret.sorted = "ok"
    /\ Len(tasks) = 2
    /\ \E i \in 1 .. 2 :
          /\ Len(tasks[i].dependencies) = 2
          /\ tasks[i].dependencies[1] = tasks[i].dependencies[2]

\* C2 as claimed: for a collection with a cycle, _topological_sort raises and
\* validate_tasks returns invalid with a circular-dependency entry.
C2_CycleAlwaysReportedByValidate ==
    (HasCycle(tasks) /\ ret.op = "validate_tasks") =>
        /\ TopologicalSort(tasks).raised
        /\ ~ret.valid
        /\ CountOf(ret.errors, CycleError) >= 1

\* C2 amended: for a collection with a cycle (a self-dependency, or a cycle
\* beside or downstream of acyclic tasks), _topological_sort raises; the call
\* that fails does not assign execution_order; validate_tasks returns invalid,
\* with the circular-dependency entry alone when every dependency name is
\* registered, and with missing-dependency entries only when one is not.
C2_CycleFailsSort ==
    /\ [](HasCycle(tasks) => TopologicalSort(tasks).raised)
    /\ []((HasCycle(tasks) /\ ret.op = "validate_tasks") =>
            /\ ~ret.valid
            /\ IF AllResolved(tasks)
               THEN ret.errors = <<CycleError>> /\ ret.sorted = "raised"
               ELSE /\ ret.errors # <<>>
                    /\ CountOf(ret.errors, CycleError) = 0
                    /\ ret.sorted = "no")
    /\ [][(HasCycle(tasks) /\ ret'.op = "validate_tasks")
             => execution_order' = execution_order]_vars

\* validate_tasks has reported the cycle of a task that depends on itself,
\* registered beside a task without dependencies, and an earlier order is
\* still cached
C2_Witness ==
    /\ ret.op = "validate_tasks"
    /\ ret.errors = <<CycleError>>
    /\ Len(tasks) = 2
    /\ \E i \in 1 .. 2 : tasks[i].dependencies = <<>>
    /\ \E i \in 1 .. 2 : tasks[i].name \in DepSet(tasks[i])
    /\ execution_order # <<>>

\* C3: validate_tasks reports every missing dependency: its error list holds
\* an entry naming T and D exactly for the pairs where T lists D and D is not
\* registered (as many entries as T lists D), and no other missing-dependency
\* entry; one task with one undefined dependency yields exactly one error.
C3_AllMissingReported ==
    ret.op = "validate_tasks" =>
        /\ \A k \in 1 .. Len(ret.errors) :
              \/ ret.errors[k] = CycleError
              \/ \E t \in Registered(tasks), d \in DepNames \ Registered(tasks) :
                    /\ d \in DepSet(Lookup(tasks, t))
                    /\ ret.errors[k] = <<"missing", t, d>>
        /\ \A t \in Registered(tasks), d \in DepNames :
              CountOf(ret.errors, <<"missing", t, d>>) =
                 IF d \in Registered(tasks) THEN 0
                 ELSE CountOf(Lookup(tasks, t).dependencies, d)
        /\ (/\ Len(tasks) = 1
            /\ Len(tasks[1].dependencies) = 1
            /\ tasks[1].dependencies[1] \notin Registered(tasks)) => Len(ret.errors) = 1

\* validate_tasks has returned entries for two different (task, name) pairs
C3_Witness ==
    /\ ret.op = "validate_tasks"
    /\ \E k, m \in 1 .. Len(ret.errors) :
          /\ ret.errors[k][1] = "missing"
          /\ ret.errors[m][1] = "missing"
          /\ ret.errors[k] # ret.errors[m]

\* C4: validate_tasks returns (True, []) exactly when every dependency name
\* is registered and the graph is acyclic, and (False, non-empty list)
\* otherwise; after it returns True, execution_order is a topological order
\* of the collection as it then is.
C4_ValidIffResolvedAndAcyclic ==
    ret.op = "validate_tasks" =>
        /\ ret.valid <=> ValidCollection(tasks)
        /\ ret.valid => ret.errors = <<>> /\ IsTopologicalOrder(tasks, execution_order)
        /\ ~ret.valid => ret.errors # <<>>

\* validate_tasks has returned True for two tasks whose order is not the
\* order of registration
C4_Witness ==
    /\ ret.op = "validate_tasks"
    /\ ret.valid
    /\ Len(tasks) = 2
    /\ execution_order # Keys(tasks)

Largest(S) == CHOOSE x \in S : \A y \in S : y <= x

\* The earliest start of a task of an acyclic collection: 0 without
\* dependencies, else the largest (earliest start + duration) of a dependency
RECURSIVE EarliestStart(_, _)
EarliestStart(ts, n) ==
    IF DepSet(Lookup(ts, n)) = {} THEN 0
    ELSE Largest({EarliestStart(ts, d) + Lookup(ts, d).duration
                    : d \in DepSet(Lookup(ts, n))})

\* The length of the longest duration-weighted dependency chain
CriticalPath(ts) ==
    Largest({0} \cup {EarliestStart(ts, n) + Lookup(ts, n).duration : n \in Registered(ts)})

Running == pc \in {"loop", "dispatch"}

\* C5 as claimed: while the collection is invalid, calculate_expected_runtime
\* returns no estimate and run_tasks starts no task.
C5_InvalidNeverActedUpon ==
    ~ValidCollection(tasks) =>
        /\ ~(ret.op = "calculate_expected_runtime" /\ ret.raised = "none")
        /\ active_tasks = <<>>
        /\ completed_tasks = {}

\* C6 as claimed: for a valid collection calculate_expected_runtime returns,
\* and stores, the length of the longest duration-weighted dependency chain.
C6_EstimateIsCriticalPath ==
    (ValidCollection(tasks) /\ ret.op = "calculate_expected_runtime") =>
        /\ ret.raised = "none"
        /\ ret.value = CriticalPath(tasks)
        /\ expected_runtime = ret.value

\* C7: a task is started (it is in active_tasks, or has been, and its
\* start_time is written) only when every one of its dependencies is in
\* completed_tasks; a dependency that is running, or whose worker has
\* finished unobserved, does not count.
C7_DependencyGating ==
    \A i \in 1 .. Len(tasks) :
        (\/ tasks[i].name \in DOMAIN active_tasks
         \/ tasks[i].name \in completed_tasks
         \/ tasks[i].start_time # None)
        => \A j \in 1 .. Len(tasks[i].dependencies) :
              tasks[i].dependencies[j] \in completed_tasks

\* A task with a dependency has been started and is running
C7_Witness ==
    /\ Running
    /\ \E i \in 1 .. Len(tasks) :
          /\ tasks[i].dependencies # <<>>
          /\ tasks[i].name \in DOMAIN active_tasks
          /\ active_tasks[tasks[i].name].alive

\* C8 as claimed: for a valid collection run_tasks returns, and when it
\* returns every registered task is completed with its three observation
\* fields set.
C8_RunCompletes ==
    /\ (Running /\ ValidCollection(tasks)) ~> (pc = "done")
    /\ []((pc = "done" /\ ret.op = "run_tasks" /\ ret.raised = "none") =>
            /\ completed_tasks = Registered(tasks)
            /\ \A i \in 1 .. Len(tasks) :
                  /\ tasks[i].start_time # None
                  /\ tasks[i].end_time # None
                  /\ tasks[i].actual_duration # None)

\* C9 as claimed: an estimate or an execution that follows add_task works on
\* an order of the collection as it is, which covers every registered task.
C9_CacheInvalidatedByAddTask ==
    (\/ ret.op = "calculate_expected_runtime" /\ ret.raised = "none"
     \/ ret.op = "run_tasks" /\ ret.raised = "none")
    => IsTopologicalOrder(tasks, execution_order)

\* C10: for a valid collection, on a discrete clock on which a worker ends no
\* earlier than its duration after its start, the runtime run_tasks returns
\* is at least the expected runtime of the collection, and every task's
\* actual_duration is at least its duration.
C10_ActualAtLeastExpected ==
    (pc = "done" /\ ret.op = "run_tasks" /\ ret.raised = "none"
        /\ ValidCollection(tasks)) =>
        /\ ret.value = actual_runtime
        /\ actual_runtime >= CriticalPath(tasks)
        /\ ~EstimateOver(tasks, execution_order).raised =>
              actual_runtime >= EstimateOver(tasks, execution_order).value
        /\ \A i \in 1 .. Len(tasks) :
              /\ tasks[i].actual_duration # None
              /\ tasks[i].actual_duration >= tasks[i].duration

\* run_tasks has returned for a chain of two tasks of duration 1, one tick
\* later than the estimate of 2
C10_Witness ==
    /\ pc = "done"
    /\ ret.op = "run_tasks"
    /\ ret.raised = "none"
    /\ ValidCollection(tasks)
    /\ Len(tasks) = 2
    /\ CriticalPath(tasks) = 2
    /\ EstimateOver(tasks, execution_order).value = 2
    /\ actual_runtime = 3

\* The collections that hold the records of ts in some order
Reorderings(ts) ==
    {[i \in 1 .. Len(ts) |-> ts[p[i]]] :
        p \in {q \in [1 .. Len(ts) -> 1 .. Len(ts)] :
                 \A i, j \in 1 .. Len(ts) : q[i] = q[j] => i = j}}

\* What calculate_expected_runtime returns in a fresh scheduler that holds ts
FreshEstimate(ts) == EstimateOver(ts, EnsureOrder(ts, <<>>).order)

\* C11: for a valid collection, the value calculate_expected_runtime returns
\* in a fresh scheduler is the value it returns in a fresh scheduler in which
\* the same tasks were registered in any other order.
C11_EstimateInsertionOrderInvariant ==
    (ret.op = "calculate_expected_runtime" /\ ValidCollection(tasks)) =>
        /\ ret.raised = "none"
        /\ \A other \in Reorderings(tasks) :
              /\ ~EnsureOrder(other, <<>>).raised
              /\ ~FreshEstimate(other).raised
              /\ FreshEstimate(other).value = ret.value

\* The estimate was returned for three tasks, the one registered first
\* depending on the other two, which have different durations
C11_Witness ==
    /\ ret.op = "calculate_expected_runtime"
    /\ ret.raised = "none"
    /\ Len(tasks) = 3
    /\ DepSet(tasks[1]) = {tasks[2].name, tasks[3].name}
    /\ tasks[2].dependencies = <<>>
    /\ tasks[3].dependencies = <<>>
    /\ tasks[2].duration > tasks[3].duration

\* C12: for a valid collection and any one task, the estimate of the
\* collection with that task's duration replaced by a larger one (names,
\* dependencies and the other durations unchanged) is not smaller than the
\* value calculate_expected_runtime returned, in a fresh scheduler and in
\* this one, which keeps its cached order.
C12_EstimateMonotone ==
    (ret.op = "calculate_expected_runtime" /\ ValidCollection(tasks)) =>
        /\ ret.raised = "none"
        /\ \A i \in 1 .. Len(tasks) : \A d \in tasks[i].duration .. MaxDur + 1 :
              LET longer == [tasks EXCEPT ![i].duration = d]
              IN  /\ ~FreshEstimate(longer).raised
                  /\ FreshEstimate(longer).value >= ret.value
                  /\ ~EstimateOver(longer, execution_order).raised
                  /\ EstimateOver(longer, execution_order).value >= ret.value

\* The estimate was returned for a chain of three tasks whose last task has
\* duration 0, which can be raised
C12_Witness ==
    /\ ret.op = "calculate_expected_runtime"
    /\ ret.value = 2 * MaxDur
    /\ Len(tasks) = 3
    /\ ValidCollection(tasks)
    /\ \E i, j, k \in 1 .. 3 :
          /\ tasks[j].name \in DepSet(tasks[i])
          /\ tasks[k].name \in DepSet(tasks[j])
          /\ tasks[i].duration = 0

\* C13: inside run_tasks a task only moves forward: the completed set only
\* grows, a completed task never enters active_tasks again, a task in
\* active_tasks stays there until it is completed, the start_time of a task
\* that is running or completed is not written again, and no task is in
\* active_tasks and in completed_tasks when readiness is evaluated.
C13_TasksMoveForward ==
    /\ [](Running => DOMAIN active_tasks \cap completed_tasks = {})
    /\ [][Running =>
            /\ completed_tasks \subseteq completed_tasks'
            /\ \A n \in completed_tasks : n \notin DOMAIN active_tasks'
            /\ \A n \in DOMAIN active_tasks :
                  n \in DOMAIN active_tasks' \cup completed_tasks'
            /\ \A i \in 1 .. Len(tasks) :
                  tasks[i].name \in DOMAIN active_tasks \cup completed_tasks =>
                     /\ tasks'[i].name = tasks[i].name
                     /\ tasks'[i].start_time = tasks[i].start_time]_vars

\* Readiness is evaluated while one task is completed and the task that
\* depends on it is not started yet
C13_Witness ==
    /\ pc = "dispatch"
    /\ Len(tasks) = 2
    /\ \E i, j \in 1 .. 2 :
          /\ tasks[j].name \in completed_tasks
          /\ tasks[j].name \in DepSet(tasks[i])
          /\ tasks[i].name \notin DOMAIN active_tasks \cup completed_tasks

\* C14 as claimed: after the initial dispatch and after the dispatch of every
\* controller cycle, every registered task whose dependencies are all in
\* completed_tasks is in active_tasks or in completed_tasks.
C14_EveryReadyTaskStarted ==
    pc = "loop" =>
        \A i \in 1 .. Len(tasks) :
            DepSet(tasks[i]) \subseteq completed_tasks =>
                tasks[i].name \in DOMAIN active_tasks \cup completed_tasks

\* C15: inside run_tasks a task's start_time is written
\* once, when the task enters active_tasks, and its end_time and
\* actual_duration are written once, by the first pass over active_tasks that
\* finds its worker not alive; a written field keeps its value.
\* validate_tasks and calculate_expected_runtime (with the sort they call)
\* leave every task record as it is.
C15_ObservationsWrittenOnce ==
    /\ [][pc # "idle" =>
            /\ Keys(tasks') = Keys(tasks)
            /\ \A i \in 1 .. Len(tasks) :
                  /\ tasks[i].start_time # None =>
                        tasks'[i].start_time = tasks[i].start_time
                  /\ tasks[i].end_time # None =>
                        tasks'[i].end_time = tasks[i].end_time
                  /\ tasks[i].actual_duration # None =>
                        tasks'[i].actual_duration = tasks[i].actual_duration
                  /\ tasks'[i].start_time # tasks[i].start_time =>
                        /\ tasks[i].name \notin DOMAIN active_tasks \cup completed_tasks
                        /\ tasks[i].name \in DOMAIN active_tasks'
                        /\ tasks'[i].start_time = now
                  /\ (\/ tasks'[i].end_time # tasks[i].end_time
                      \/ tasks'[i].actual_duration # tasks[i].actual_duration) =>
                        /\ tasks[i].name \in DOMAIN active_tasks
                        /\ ~active_tasks[tasks[i].name].alive
                        /\ tasks'[i].end_time = now
                        /\ tasks'[i].actual_duration = now - tasks[i].start_time
                  /\ (/\ pc = "loop"
                      /\ pc' = "dispatch"
                      /\ tasks[i].name \in DOMAIN active_tasks
                      /\ ~active_tasks[tasks[i].name].alive) =>
                        tasks'[i].end_time = now]_vars
    /\ [][(/\ pc = "idle"
           /\ pc' = "idle"
           /\ ret'.op \in {"validate_tasks", "calculate_expected_runtime"})
             => tasks' = tasks]_vars
    /\ [](pc = "idle" => \A i \in 1 .. Len(tasks) :
                           /\ tasks[i].start_time = None
                           /\ tasks[i].end_time = None
                           /\ tasks[i].actual_duration = None)

\* run_tasks has returned for a chain of two tasks, after the estimate was
\* asked for, and the first task ended before the clock advanced again
C15_Witness ==
    /\ pc = "done"
    /\ ret.op = "run_tasks"
    /\ expected_runtime > 0
    /\ Len(tasks) = 2
    /\ \E i, j \in 1 .. 2 :
          /\ tasks[j].name \in DepSet(tasks[i])
          /\ tasks[j].end_time # None
          /\ tasks[j].end_time < now
          /\ tasks[i].end_time = now

\* The listings of task n that name a task outside `done`
OpenListings(ts, n, done) ==
    Cardinality({j \in 1 .. Len(Lookup(ts, n).dependencies) :
                    Lookup(ts, n).dependencies[j] \notin done})

\* Kahn's algorithm with a FIFO queue, told by sets: dequeue the head; its
\* dependents all of whose listings now name dequeued tasks join the queue
\* in registration order.
RECURSIVE FifoKahn(_, _, _)
FifoKahn(ts, queue, result) ==
    IF queue = <<>> THEN result
    ELSE LET current == Head(queue)
             done == {result[k] : k \in 1 .. Len(result)} \cup {current}
             released == SelectSeq(Keys(ts), LAMBDA n :
                             /\ current \in DepSet(Lookup(ts, n))
                             /\ OpenListings(ts, n, done) = 0)
         IN  FifoKahn(ts, Tail(queue) \o released, Append(result, current))

\* Seeded with the tasks without listings, in registration order
FifoKahnOrder(ts) ==
    FifoKahn(ts, SelectSeq(Keys(ts), LAMBDA n : OpenListings(ts, n, {}) = 0), <<>>)

\* C16: _topological_sort is a function of the registered sequence of tasks
\* and their dependency lists: it raises exactly when the FIFO run of Kahn's
\* algorithm (seeded in registration order, dependents released in
\* registration order) leaves a task out, and otherwise returns, and stores
\* in execution_order, the sequence of that run.
C16_OrderIsFifoKahn ==
    /\ TopologicalSort(tasks).raised <=> Len(FifoKahnOrder(tasks)) # Len(tasks)
    /\ ~TopologicalSort(tasks).raised =>
          TopologicalSort(tasks).result = FifoKahnOrder(tasks)
    /\ ret.sorted = "ok" => execution_order = FifoKahnOrder(tasks)

\* validate_tasks has sorted three tasks of which the one registered last
\* releases the other two, one of them listing it twice
C16_Witness ==
    /\ ret.op = "validate_tasks"
    /\ ret.sorted = "ok"
    /\ Len(tasks) = 3
    /\ tasks[1].dependencies = <<tasks[3].name, tasks[3].name>>
    /\ tasks[2].dependencies = <<tasks[3].name>>
    /\ execution_order = <<tasks[3].name, tasks[1].name, tasks[2].name>>

\* C17: inside run_tasks every step that changes a task record, the
\* completed set, the keys of active_tasks or a recorded start time is a step
\* of the controller; the step in which a worker stops being alive changes
\* nothing else and is taken no earlier than the task's duration after the
\* task was started.
C17_ControllerIsOnlyWriter ==
    [][Running =>
        /\ (\/ tasks' # tasks
            \/ completed_tasks' # completed_tasks
            \/ DOMAIN active_tasks' # DOMAIN active_tasks
            \/ \E n \in DOMAIN active_tasks \cap DOMAIN active_tasks' :
                  active_tasks'[n].start_time # active_tasks[n].start_time)
           => pc' # pc
        /\ \A n \in DOMAIN active_tasks \cap DOMAIN active_tasks' :
              active_tasks'[n].alive # active_tasks[n].alive =>
                 /\ active_tasks[n].alive
                 /\ now >= active_tasks[n].start_time
                             + tasks[CHOOSE i \in 1 .. Len(tasks) : tasks[i].name = n].duration
                 /\ pc' = pc
                 /\ now' = now
                 /\ tasks' = tasks
                 /\ completed_tasks' = completed_tasks
                 /\ execution_order' = execution_order
                 /\ \A m \in DOMAIN active_tasks \ {n} :
                       active_tasks'[m] = active_tasks[m]]_vars

\* The worker of one task has stopped, unobserved by the controller, while
\* the worker of another task is alive
C17_Witness ==
    /\ Running
    /\ \E n, m \in DOMAIN active_tasks :
          /\ ~active_tasks[n].alive
          /\ active_tasks[m].alive

\* C18: the collection holds one record per name.  Registering (name,
\* duration, dependencies) in any collection the scheduler can hold leaves
\* under `name` the record just given, with unset observation fields,
\* whether or not the name was registered before, adds no other name and
\* leaves the record of every other name as it was; every add_task step is
\* such a registration.
C18_LastRegistrationWins ==
    /\ [](\A i, j \in 1 .. Len(tasks) : tasks[i].name = tasks[j].name => i = j)
    /\ [](pc = "idle" =>
            \A name \in TaskNames, duration \in Durations, dependencies \in DepLists :
               LET after == DictSet(tasks, Task(name, duration, dependencies))
               IN  /\ {after[i].name : i \in 1 .. Len(after)}
                         = {tasks[i].name : i \in 1 .. Len(tasks)} \cup {name}
                   /\ \A i, j \in 1 .. Len(after) : after[i].name = after[j].name => i = j
                   /\ \E i \in 1 .. Len(after) :
                         after[i] = [name |-> name, duration |-> duration,
                                     dependencies |-> dependencies, start_time |-> None,
                                     end_time |-> None, actual_duration |-> None]
                   /\ \A i \in 1 .. Len(tasks) :
                         tasks[i].name # name =>
                            \E j \in 1 .. Len(after) : after[j] = tasks[i])
    /\ [][(pc = "idle" /\ ret'.op = "add_task") =>
            \/ UNCHANGED vars
            \/ \E i \in 1 .. Len(tasks') : tasks' = DictSet(tasks, tasks'[i])]_vars

\* Both names are registered; the one registered first was validated alone
\* and registered again since, now depending on the other
C18_Witness ==
    /\ pc = "idle"
    /\ ret.op = "add_task"
    /\ Len(tasks) = 2
    /\ execution_order = <<tasks[1].name>>
    /\ tasks[1].duration = MaxDur
    /\ tasks[1].dependencies = <<tasks[2].name>>

\* C19: once a task is started, every dependency of it has an end_time, not
\* later than the task's start_time; when run_tasks has returned for a valid
\* collection this holds of every task and every dependency, and every
\* task's start_time is not later than its end_time.
C19_TimestampsRespectDependencies ==
    /\ \A i \in 1 .. Len(tasks) :
          tasks[i].start_time # None =>
             \A d \in DepSet(tasks[i]) : \E j \in 1 .. Len(tasks) :
                /\ tasks[j].name = d
                /\ tasks[j].end_time # None
                /\ tasks[j].end_time <= tasks[i].start_time
    /\ \A i \in 1 .. Len(tasks) :
          tasks[i].end_time # None =>
             /\ tasks[i].start_time # None
             /\ tasks[i].start_time <= tasks[i].end_time
    /\ (pc = "done" /\ ret.op = "run_tasks" /\ ret.raised = "none"
           /\ ValidCollection(tasks)) =>
          \A i \in 1 .. Len(tasks) :
             /\ tasks[i].start_time # None
             /\ tasks[i].end_time # None

\* run_tasks has returned for a chain of two tasks; the dependency ended one
\* tick after its start and the dependent was started at that time
C19_Witness ==
    /\ pc = "done"
    /\ ret.op = "run_tasks"
    /\ ret.raised = "none"
    /\ Len(tasks) = 2
    /\ \E i, j \in 1 .. 2 :
          /\ tasks[j].name \in DepSet(tasks[i])
          /\ tasks[j].start_time = 0
          /\ tasks[j].end_time = 1
          /\ tasks[i].start_time = 1
          /\ tasks[i].end_time >= 1

\* C20: when a dependency name is not registered, validate_tasks returns
\* invalid with missing-dependency entries only, also when the collection
\* has a cycle, does not run the sort and leaves execution_order as it was.
C20_MissingShortCircuitsSort ==
    /\ []((ret.op = "validate_tasks" /\ ~AllResolved(tasks)) =>
            /\ ~ret.valid
            /\ ret.errors # <<>>
            /\ \A k \in 1 .. Len(ret.errors) : ret.errors[k][1] = "missing"
            /\ ret.sorted = "no")
    /\ [][(~AllResolved(tasks) /\ ret'.op = "validate_tasks")
             => execution_order' = execution_order]_vars

\* validate_tasks has returned for a collection with an unregistered
\* dependency name and a cycle, while an earlier order is cached
C20_Witness ==
    /\ ret.op = "validate_tasks"
    /\ ~AllResolved(tasks)
    /\ HasCycle(tasks)
    /\ execution_order # <<>>

====
